---- MODULE Spec2Model ----
(***************************************************************************)
(* APIChain (langchain/chains/api/base.py): a question is turned into an   *)
(* API URL by a first LLM call, the URL is fetched, and a second LLM call  *)
(* turns question, docs, URL and response into the answer.                 *)
(*                                                                         *)
(* Texts are sequences of one-character strings.  An invocation is a frame *)
(* holding the locals of _call / _acall, the exception it raised (if any), *)
(* the log of the collaborator calls it made, in order, and the set of     *)
(* collaborator calls that raised.  _call runs as one step (it blocks);    *)
(* _acall is split at its three awaits.                                    *)
(***************************************************************************)
EXTENDS Integers, Sequences, FiniteSets, TLC

VARIABLES
    args,       \* what the constructor / factory is called with
    ctor,       \* "pending" | "ok" | "error"
    ctor_error, \* which validator raised ValueError, or NoError
    chain,      \* the APIChain object once constructed, else NoChain
    inv         \* invocation id -> frame

vars == <<args, ctor, ctor_error, chain, inv>>

------------------------------------------------------------------------------
(* Bounds *)

NumInvocations == 2

MaxRequestVars == 3

MaxAnswerVars == 4

InvIds == 1..NumInvocations

------------------------------------------------------------------------------
(* Texts *)

Unset == <<"<unset>">>

Questions == {<<"a">>, <<"b">>}

ApiDocsChoices == {<<"d">>, <<"e">>}

IsSpace(c) == c = " "

RECURSIVE LStrip(_)
LStrip(t) == IF t # <<>> /\ IsSpace(Head(t)) THEN LStrip(Tail(t)) ELSE t

RECURSIVE RStrip(_)
RStrip(t) ==
    IF t # <<>> /\ IsSpace(t[Len(t)]) THEN RStrip(SubSeq(t, 1, Len(t) - 1)) ELSE t

Strip(t) == RStrip(LStrip(t))

UpperChar(c) ==
    CASE c = "a" -> "A"
      [] c = "b" -> "B"
      [] c = "d" -> "D"
      [] c = "e" -> "E"
      [] c = "r" -> "R"
      [] c = "s" -> "S"
      [] c = "u" -> "U"
      [] OTHER -> c

ToUpperCase(t) == [k \in 1..Len(t) |-> UpperChar(t[k])]

------------------------------------------------------------------------------
(* Collaborator stubs: deterministic functions of their arguments. *)

\* api_request_chain.predict / apredict: the URL for a question.  For the
\* question "a" the completion carries surrounding whitespace.
LLMPredictRequest(b) ==
    IF b.question = <<"a">>
    THEN <<" ", "u">> \o b.question \o b.api_docs \o <<" ">>
    ELSE <<"u">> \o b.question \o b.api_docs

\* requests_wrapper.get / aget: the body served at a URL.
HttpGet(url) == <<"r">> \o url

\* api_answer_chain.predict / apredict: under the docs "e" the completion
\* echoes api_response, under any other docs it is a digest of all four
\* bindings.
LLMPredictAnswer(b) ==
    IF b.api_docs = <<"e">>
    THEN b.api_response
    ELSE <<"s">> \o b.question \o b.api_docs \o b.api_url \o b.api_response

\* api_request_output_parser(text)
ApplyParser(parser, text) == IF parser = "upper" THEN ToUpperCase(text) ELSE text

\* Python truth value of the api_request_output_parser field
Truthy(parser) == parser # "None"

------------------------------------------------------------------------------
(* Construction *)

NoError == "None"

NoChain == [constructed |-> FALSE]

ToSet(seq) == {seq[k] : k \in 1..Len(seq)}

\* langchain.chains.api.prompt: the input_variables of the default prompts
API_URL_PROMPT == <<"api_docs", "question">>

API_RESPONSE_PROMPT == <<"api_docs", "question", "api_url", "api_response">>

\* input_variables lists a caller may hand in for the request prompt
RequestPromptChoices ==
    { API_URL_PROMPT,
      <<"question", "api_docs">>,
      <<"question">>,
      <<"question", "api_docs", "foo">> }

\* input_variables lists a caller may hand in for the answer prompt
AnswerPromptChoices ==
    { API_RESPONSE_PROMPT,
      <<"api_docs", "question", "api_url", "response">>,
      <<"question", "api_docs", "api_url">>,
      <<"question", "api_docs", "api_url", "api_response", "foo">> }

ParserChoices == {"None", "upper"}

QuestionKeyChoices == {"question", "query"}

OutputKeyChoices == {"output", "result"}

\* all lists of at most n names
PromptLists(names, n) == UNION {[1..k -> names] : k \in 0..n}

\* the arguments of a construction whose prompts are the default ones; the
\* two keys are either both left at their defaults or both set
PipelineArgsChoices ==
    { a \in [ api_url_prompt : {API_URL_PROMPT},
              api_response_prompt : {API_RESPONSE_PROMPT},
              api_docs : ApiDocsChoices,
              api_request_output_parser : ParserChoices,
              question_key : QuestionKeyChoices,
              output_key : OutputKeyChoices,
              llm : {"llm"} ] :
          (a.question_key = "question") <=> (a.output_key = "output") }

\* the arguments of a construction with caller-supplied prompts: every
\* short list for one prompt, against the listed choices for the other
ConstructArgsChoices ==
    [ api_url_prompt : PromptLists({"question", "api_docs", "foo"}, MaxRequestVars),
      api_response_prompt : AnswerPromptChoices,
      api_docs : {<<"d">>},
      api_request_output_parser : {"None"},
      question_key : {"question"},
      output_key : {"output"},
      llm : {"llm"} ]
    \cup
    [ api_url_prompt : RequestPromptChoices,
      api_response_prompt :
          PromptLists({"question", "api_docs", "api_url", "api_response", "foo"},
                      MaxAnswerVars),
      api_docs : {<<"d">>},
      api_request_output_parser : {"None"},
      question_key : {"question"},
      output_key : {"output"},
      llm : {"llm"} ]

\* LLMChain(llm=llm, prompt=prompt)
LLMChain(llm, prompt) == [llm |-> llm, prompt |-> [input_variables |-> prompt]]

\* the keyword arguments cls(...) receives
Values(a) ==
    [ api_request_chain |-> LLMChain(a.llm, a.api_url_prompt),
      api_answer_chain |-> LLMChain(a.llm, a.api_response_prompt),
      requests_wrapper |-> [defaults |-> "None"],
      api_docs |-> a.api_docs,
      api_request_output_parser |-> a.api_request_output_parser,
      question_key |-> a.question_key,
      output_key |-> a.output_key ]

\* mutant: any prompt that declares at least the expected variables passes
validate_api_request_prompt_superset(values) ==
    LET input_vars == values.api_request_chain.prompt.input_variables
        expected_vars == {"question", "api_docs"}
    IN  IF ~(expected_vars \subseteq ToSet(input_vars))
        THEN [error |-> "ValueError:api_request_prompt", values |-> values]
        ELSE [error |-> NoError, values |-> values]

validate_api_request_prompt(values) ==
    LET input_vars == values.api_request_chain.prompt.input_variables
        expected_vars == {"question", "api_docs"}
    IN  IF ToSet(input_vars) # expected_vars
        THEN [error |-> "ValueError:api_request_prompt", values |-> values]
        ELSE [error |-> NoError, values |-> values]

\* mutant: any prompt that declares no unexpected variable passes
validate_api_answer_prompt_subset(values) ==
    LET input_vars == values.api_answer_chain.prompt.input_variables
        expected_vars == {"question", "api_docs", "api_url", "api_response"}
    IN  IF ~(ToSet(input_vars) \subseteq expected_vars)
        THEN [error |-> "ValueError:api_answer_prompt", values |-> values]
        ELSE [error |-> NoError, values |-> values]

validate_api_answer_prompt(values) ==
    LET input_vars == values.api_answer_chain.prompt.input_variables
        expected_vars == {"question", "api_docs", "api_url", "api_response"}
    IN  IF ToSet(input_vars) # expected_vars
        THEN [error |-> "ValueError:api_answer_prompt", values |-> values]
        ELSE [error |-> NoError, values |-> values]

\* cls(**values): the pre root validators run in the order of their
\* definition and the first one that raises ends the construction.
APIChain(values) ==
    LET r1 == validate_api_request_prompt(values)
        r2 == validate_api_answer_prompt(r1.values)
    IN  IF r1.error # NoError THEN [error |-> r1.error, obj |-> NoChain]
        ELSE IF r2.error # NoError THEN [error |-> r2.error, obj |-> NoChain]
        ELSE [error |-> NoError,
              obj |-> [constructed |-> TRUE] @@ r2.values]

from_llm_and_api_docs(a) ==
    LET get_request_chain == LLMChain(a.llm, a.api_url_prompt)
        requests_wrapper == [defaults |-> "None"]
        get_answer_chain == LLMChain(a.llm, a.api_response_prompt)
    IN  APIChain([ api_request_chain |-> get_request_chain,
                   api_answer_chain |-> get_answer_chain,
                   requests_wrapper |-> requests_wrapper,
                   api_docs |-> a.api_docs,
                   api_request_output_parser |-> a.api_request_output_parser,
                   question_key |-> a.question_key,
                   output_key |-> a.output_key ])

------------------------------------------------------------------------------
(* Frames: the locals of one _call / _acall *)

Idle ==
    [ mode |-> "none", pc |-> "idle", inputs |-> {},
      question |-> Unset, api_url |-> Unset, api_response |-> Unset,
      answer |-> Unset, error |-> NoError, output |-> {}, log |-> <<>>,
      raised |-> {} ]

NewFrame(mode, inputs) == [Idle EXCEPT !.mode = mode, !.pc = "running", !.inputs = inputs]

\* dicts are sets of <<key, value>> pairs with distinct keys
DictKeys(d) == {p[1] : p \in d}

DictGet(d, k) == (CHOOSE p \in d : p[1] = k)[2]

\* the input mappings an invocation may be called with: one key, or both
\* keys with different texts
InputChoices ==
    { {<<k, <<"a">>>>} : k \in QuestionKeyChoices }
    \cup { {<<"question", <<"b">>>>, <<"query", <<"a">>>>} }

Live(s) == s.error = NoError

\* an exception propagates out of the frame
Raise(s, e) == [s EXCEPT !.error = e, !.pc = "failed"]

\* the collaborator call named op raised
Raised(s, op) == [s EXCEPT !.raised = @ \cup {op}]

Record(s, op, a) == [s EXCEPT !.log = Append(@, [op |-> op, args |-> a])]

LastCall(s) == s.log[Len(s.log)]

At(s, pc) == IF Live(s) THEN [s EXCEPT !.pc = pc] ELSE s

------------------------------------------------------------------------------
(* _call, statement by statement.  A statement leaves a frame that already *)
(* raised as it is; fault names the collaborator call that raises.         *)

\* mutant: a missing question key is read as the empty question
call_question_default(self, s) ==
    IF ~Live(s) THEN s
    ELSE IF self.question_key \in DictKeys(s.inputs)
         THEN [s EXCEPT !.question = DictGet(s.inputs, self.question_key)]
         ELSE [s EXCEPT !.question = <<>>]

\* question = inputs[self.question_key]
call_question(self, s) ==
    IF ~Live(s) THEN s
    ELSE IF self.question_key \in DictKeys(s.inputs)
         THEN [s EXCEPT !.question = DictGet(s.inputs, self.question_key)]
         ELSE Raise(s, "KeyError")

\* mutant: a failed request-chain call is made a second time
call_api_url_retry(self, s, fault) ==
    LET b == [question |-> s.question, api_docs |-> self.api_docs]
        t == Record(s, "predict_request", b)
    IN  IF ~Live(s) THEN s
        ELSE IF fault = "predict_request"
             THEN [Record(Raised(t, fault), "predict_request", b)
                      EXCEPT !.api_url = LLMPredictRequest(b)]
        ELSE [t EXCEPT !.api_url = LLMPredictRequest(b)]

\* mutant: the question is bound under the name of the configured input key
call_api_url_named_by_key(self, s, fault) ==
    LET b == [question |-> s.question, api_docs |-> self.api_docs]
        t == Record(s, "predict_request",
                    (self.question_key :> s.question) @@ ("api_docs" :> self.api_docs))
    IN  IF ~Live(s) THEN s
        ELSE IF fault = "predict_request" THEN Raise(Raised(t, fault), "ModelInvocationError")
        ELSE [t EXCEPT !.api_url = LLMPredictRequest(b)]

\* api_url = self.api_request_chain.predict(question=..., api_docs=...)
call_api_url(self, s, fault) ==
    LET b == [question |-> s.question, api_docs |-> self.api_docs]
        t == Record(s, "predict_request", b)
    IN  IF ~Live(s) THEN s
        ELSE IF fault = "predict_request" THEN Raise(Raised(t, fault), "ModelInvocationError")
        ELSE [t EXCEPT !.api_url = LLMPredictRequest(b)]

\* mutant: an exception of the observer is caught and the pipeline goes on
call_on_text_url_guarded(self, s, fault) ==
    LET t == Record(s, "on_text", [text |-> s.api_url, color |-> "green"])
    IN  IF ~Live(s) THEN s
        ELSE IF fault = "on_text_url" THEN Raised(t, fault)
        ELSE t

\* self.callback_manager.on_text(api_url, color="green", ...)
call_on_text_url(self, s, fault) ==
    LET t == Record(s, "on_text", [text |-> s.api_url, color |-> "green"])
    IN  IF ~Live(s) THEN s
        ELSE IF fault = "on_text_url" THEN Raise(Raised(t, fault), "ObserverError")
        ELSE t

\* mutant: a failed fetch is swallowed and an empty response is used
call_api_response_swallow(self, s, fault) ==
    LET t == Record(s, "get", [url |-> s.api_url])
    IN  IF ~Live(s) THEN s
        ELSE IF fault = "get" THEN [Raised(t, fault) EXCEPT !.api_response = <<>>]
        ELSE [t EXCEPT !.api_response = HttpGet(s.api_url)]

\* mutant: the URL is stripped of surrounding whitespace before the fetch
call_api_response_strip(self, s, fault) ==
    LET t == Record(s, "get", [url |-> Strip(s.api_url)])
    IN  IF ~Live(s) THEN s
        ELSE IF fault = "get" THEN Raise(Raised(t, fault), "FetchError")
        ELSE [t EXCEPT !.api_response = HttpGet(Strip(s.api_url))]

\* api_response = self.requests_wrapper.get(api_url)
call_api_response(self, s, fault) ==
    LET t == Record(s, "get", [url |-> s.api_url])
    IN  IF ~Live(s) THEN s
        ELSE IF fault = "get" THEN Raise(Raised(t, fault), "FetchError")
        ELSE [t EXCEPT !.api_response = HttpGet(s.api_url)]

\* mutant: the observer is shown the parsed response
call_on_text_response_parsed(self, s, fault) ==
    LET t == Record(s, "on_text",
                    [text |-> ApplyParser(self.api_request_output_parser, s.api_response),
                     color |-> "yellow"])
    IN  IF ~Live(s) THEN s
        ELSE IF fault = "on_text_response" THEN Raise(Raised(t, fault), "ObserverError")
        ELSE t

\* self.callback_manager.on_text(api_response, color="yellow", ...)
call_on_text_response(self, s, fault) ==
    LET t == Record(s, "on_text", [text |-> s.api_response, color |-> "yellow"])
    IN  IF ~Live(s) THEN s
        ELSE IF fault = "on_text_response" THEN Raise(Raised(t, fault), "ObserverError")
        ELSE t

\* mutant: a parser that raises is ignored and the raw response is kept
call_output_parser_fallback(self, s, fault) ==
    LET t == Record(s, "parser", [text |-> s.api_response])
    IN  IF ~Live(s) THEN s
        ELSE IF ~Truthy(self.api_request_output_parser) THEN s
        ELSE IF fault = "parser" THEN Raised(t, fault)
        ELSE [t EXCEPT !.api_response =
                           ApplyParser(self.api_request_output_parser, s.api_response)]

\* mutant: the parser is never applied
call_output_parser_skipped(self, s, fault) == s

\* if self.api_request_output_parser:
\*     api_response = self.api_request_output_parser(api_response)
call_output_parser(self, s, fault) ==
    LET t == Record(s, "parser", [text |-> s.api_response])
    IN  IF ~Live(s) THEN s
        ELSE IF ~Truthy(self.api_request_output_parser) THEN s
        ELSE IF fault = "parser" THEN Raise(Raised(t, fault), "NormalizationError")
        ELSE [t EXCEPT !.api_response =
                           ApplyParser(self.api_request_output_parser, s.api_response)]

\* mutant: phase 2 is bound with a tidied copy of the URL
call_answer_tidied_url(self, s, fault) ==
    LET b == [question |-> s.question, api_docs |-> self.api_docs,
              api_url |-> Strip(s.api_url), api_response |-> s.api_response]
        t == Record(s, "predict_answer", b)
    IN  IF ~Live(s) THEN s
        ELSE IF fault = "predict_answer" THEN Raise(Raised(t, fault), "ModelInvocationError")
        ELSE [t EXCEPT !.answer = LLMPredictAnswer(b)]

\* answer = self.api_answer_chain.predict(question=..., api_docs=...,
\*                                        api_url=..., api_response=...)
call_answer(self, s, fault) ==
    LET b == [question |-> s.question, api_docs |-> self.api_docs,
              api_url |-> s.api_url, api_response |-> s.api_response]
        t == Record(s, "predict_answer", b)
    IN  IF ~Live(s) THEN s
        ELSE IF fault = "predict_answer" THEN Raise(Raised(t, fault), "ModelInvocationError")
        ELSE [t EXCEPT !.answer = LLMPredictAnswer(b)]

\* mutant: the answer is returned under the default key
call_return_default_key(self, s) ==
    IF ~Live(s) THEN s
    ELSE [s EXCEPT !.output = {<<"output", s.answer>>}, !.pc = "done"]

\* return {self.output_key: answer}
call_return(self, s) ==
    IF ~Live(s) THEN s
    ELSE [s EXCEPT !.output = {<<self.output_key, s.answer>>}, !.pc = "done"]

SyncFaults ==
    {"none", "predict_request", "on_text_url", "get", "on_text_response",
     "parser", "predict_answer"}

call(self, inputs, fault) ==
    LET s0 == NewFrame("sync", inputs)
        s1 == call_question(self, s0)
        s2 == call_api_url(self, s1, fault)
        s3 == call_on_text_url(self, s2, fault)
        s4 == call_api_response(self, s3, fault)
        s5 == call_on_text_response(self, s4, fault)
        s6 == call_output_parser(self, s5, fault)
        s7 == call_answer(self, s6, fault)
    IN  call_return(self, s7)

------------------------------------------------------------------------------
(* _acall, split at its awaits.  A call is logged when it is made; what it *)
(* returns is bound when the coroutine resumes.                            *)

\* question = inputs[self.question_key]
acall_question(self, s) ==
    IF ~Live(s) THEN s
    ELSE IF self.question_key \in DictKeys(s.inputs)
         THEN [s EXCEPT !.question = DictGet(s.inputs, self.question_key)]
         ELSE Raise(s, "KeyError")

\* self.api_request_chain.apredict(question=..., api_docs=...) is called
acall_api_url_begin(self, s) ==
    IF ~Live(s) THEN s
    ELSE At(Record(s, "predict_request",
                   [question |-> s.question, api_docs |-> self.api_docs]),
            "await_request")

\* api_url = await ...
acall_api_url_resume(self, s, fault) ==
    IF ~Live(s) THEN s
    ELSE IF fault = "predict_request" THEN Raise(Raised(s, fault), "ModelInvocationError")
    ELSE [s EXCEPT !.api_url = LLMPredictRequest(LastCall(s).args), !.pc = "running"]

\* self.callback_manager.on_text(api_url, color="green", ...)
acall_on_text_url(self, s, fault) ==
    LET t == Record(s, "on_text", [text |-> s.api_url, color |-> "green"])
    IN  IF ~Live(s) THEN s
        ELSE IF fault = "on_text_url" THEN Raise(Raised(t, fault), "ObserverError")
        ELSE t

\* self.requests_wrapper.aget(api_url) is called
acall_api_response_begin(self, s) ==
    IF ~Live(s) THEN s
    ELSE At(Record(s, "get", [url |-> s.api_url]), "await_get")

\* api_response = await ...
acall_api_response_resume(self, s, fault) ==
    IF ~Live(s) THEN s
    ELSE IF fault = "get" THEN Raise(Raised(s, fault), "FetchError")
    ELSE [s EXCEPT !.api_response = HttpGet(LastCall(s).args.url), !.pc = "running"]

\* self.callback_manager.on_text(api_response, color="yellow", ...)
acall_on_text_response(self, s, fault) ==
    LET t == Record(s, "on_text", [text |-> s.api_response, color |-> "yellow"])
    IN  IF ~Live(s) THEN s
        ELSE IF fault = "on_text_response" THEN Raise(Raised(t, fault), "ObserverError")
        ELSE t

\* self.api_answer_chain.apredict(question=..., api_docs=..., api_url=...,
\*                                api_response=...) is called
acall_answer_begin(self, s) ==
    IF ~Live(s) THEN s
    ELSE At(Record(s, "predict_answer",
                   [question |-> s.question, api_docs |-> self.api_docs,
                    api_url |-> s.api_url, api_response |-> s.api_response]),
            "await_answer")

\* answer = await ...
acall_answer_resume(self, s, fault) ==
    IF ~Live(s) THEN s
    ELSE IF fault = "predict_answer" THEN Raise(Raised(s, fault), "ModelInvocationError")
    ELSE [s EXCEPT !.answer =
                       LLMPredictAnswer(LastCall(s).args),
                   !.pc = "running"]

\* return {self.output_key: answer}
acall_return(self, s) ==
    IF ~Live(s) THEN s
    ELSE [s EXCEPT !.output = {<<self.output_key, s.answer>>}, !.pc = "done"]

\* from the call of _acall to its first await
acall_start(self, inputs) ==
    acall_api_url_begin(self, acall_question(self, NewFrame("async", inputs)))

\* mutant: the fetch is started before the URL is shown to the observer
acall_after_request_fetch_first(self, s, fault) ==
    acall_on_text_url(self,
        acall_api_response_begin(self, acall_api_url_resume(self, s, fault)), fault)

\* from the first await to the second
acall_after_request(self, s, fault) ==
    acall_api_response_begin(self,
        acall_on_text_url(self, acall_api_url_resume(self, s, fault), fault))

\* mutant: whatever the fetch returns, the same fetch is awaited again
acall_after_get_again(self, s, fault) == At(s, "await_get")

\* from the second await to the third
acall_after_get(self, s, fault) ==
    acall_answer_begin(self,
        acall_on_text_response(self, acall_api_response_resume(self, s, fault), fault))

\* from the third await to the return
acall_after_answer(self, s, fault) ==
    acall_return(self, acall_answer_resume(self, s, fault))

\* asyncio cancellation: CancelledError is raised at the pending await and
\* _acall, which catches nothing, lets it propagate
\* (mutant: the coroutine swallows it and goes on waiting)
acall_cancel_swallowed(s) == Raised(s, "cancel")

acall_cancel(s) == Raise(Raised(s, "cancel"), "CancelledError")

Awaiting(s) == s.pc \in {"await_request", "await_get", "await_answer"}

Terminal(s) == s.pc \in {"done", "failed"}

------------------------------------------------------------------------------
(* The state machine *)

Init ==
    /\ args \in PipelineArgsChoices
    /\ ctor = "pending"
    /\ ctor_error = NoError
    /\ chain = NoChain
    /\ inv = [i \in InvIds |-> Idle]

Built(r) ==
    /\ ctor' = IF r.error = NoError THEN "ok" ELSE "error"
    /\ ctor_error' = r.error
    /\ chain' = r.obj
    /\ UNCHANGED <<args, inv>>

\* APIChain(api_request_chain=..., api_answer_chain=..., ...)
Construct ==
    /\ ctor = "pending"
    /\ Built(APIChain(Values(args)))

\* APIChain.from_llm_and_api_docs(llm, api_docs, ...)
FromLlmAndApiDocs ==
    /\ ctor = "pending"
    /\ Built(from_llm_and_api_docs(args))

\* invocation ids are only names: they are handed out in order
Fresh(i) == inv[i].pc = "idle" /\ \A j \in InvIds : j < i => inv[j].pc # "idle"

\* mutant: a call that returned appends its response to the docs kept on
\* the chain
Call_accumulates(i) ==
    /\ ctor = "ok"
    /\ Fresh(i)
    /\ \E inputs \in InputChoices, fault \in SyncFaults :
           LET s == call(chain, inputs, fault)
           IN  /\ inv' = [inv EXCEPT ![i] = s]
               /\ chain' = IF s.pc = "done"
                            THEN [chain EXCEPT !.api_docs = @ \o s.api_response]
                            ELSE chain
    /\ UNCHANGED <<args, ctor, ctor_error>>

\* chain._call(inputs)
Call(i) ==
    /\ ctor = "ok"
    /\ Fresh(i)
    /\ \E inputs \in InputChoices, fault \in SyncFaults :
           inv' = [inv EXCEPT ![i] = call(chain, inputs, fault)]
    /\ UNCHANGED <<args, ctor, ctor_error, chain>>

\* chain._acall(inputs) runs to its first await
Acall(i) ==
    /\ ctor = "ok"
    /\ Fresh(i)
    /\ \E inputs \in InputChoices :
           inv' = [inv EXCEPT ![i] = acall_start(chain, inputs)]
    /\ UNCHANGED <<args, ctor, ctor_error, chain>>

\* mutant: the pending request-chain call is kept on the chain, not in the
\* coroutine, so a coroutine resumes with the call another one made last
AcallAfterRequest_shared(i) ==
    /\ inv[i].pc = "await_request"
    /\ \E j \in InvIds, fault \in {"none", "predict_request", "on_text_url"} :
           /\ inv[j].pc = "await_request"
           /\ inv' = [inv EXCEPT ![i] =
                         acall_after_request(chain,
                             [inv[i] EXCEPT !.log = inv[j].log], fault)]
    /\ UNCHANGED <<args, ctor, ctor_error, chain>>

AcallAfterRequest(i) ==
    /\ inv[i].pc = "await_request"
    /\ \E fault \in {"none", "predict_request", "on_text_url"} :
           inv' = [inv EXCEPT ![i] = acall_after_request(chain, inv[i], fault)]
    /\ UNCHANGED <<args, ctor, ctor_error, chain>>

AcallAfterGet(i) ==
    /\ inv[i].pc = "await_get"
    /\ \E fault \in {"none", "get", "on_text_response"} :
           inv' = [inv EXCEPT ![i] = acall_after_get(chain, inv[i], fault)]
    /\ UNCHANGED <<args, ctor, ctor_error, chain>>

AcallAfterAnswer(i) ==
    /\ inv[i].pc = "await_answer"
    /\ \E fault \in {"none", "predict_answer"} :
           inv' = [inv EXCEPT ![i] = acall_after_answer(chain, inv[i], fault)]
    /\ UNCHANGED <<args, ctor, ctor_error, chain>>

\* task.cancel() while the coroutine is suspended
Cancel(i) ==
    /\ Awaiting(inv[i])
    /\ inv' = [inv EXCEPT ![i] = acall_cancel(inv[i])]
    /\ UNCHANGED <<args, ctor, ctor_error, chain>>

Next ==
    \/ Construct
    \/ FromLlmAndApiDocs
    \/ \E i \in InvIds : Call(i)
    \/ \E i \in InvIds : Acall(i)
    \/ \E i \in InvIds : AcallAfterRequest(i)
    \/ \E i \in InvIds : AcallAfterGet(i)
    \/ \E i \in InvIds : AcallAfterAnswer(i)
    \/ \E i \in InvIds : Cancel(i)

Spec == Init /\ [][Next]_vars

\* the event loop resumes a coroutine once what it awaits has returned or
\* failed, and every collaborator call eventually does one or the other;
\* nothing obliges anyone to start an invocation or to cancel one
Fairness ==
    \A i \in InvIds :
        /\ WF_vars(AcallAfterRequest(i))
        /\ WF_vars(AcallAfterGet(i))
        /\ WF_vars(AcallAfterAnswer(i))

\* whether an invocation ends does not depend on the docs or on the names of
\* the keys: the fair runs are taken from the chains with the default keys
InitFair ==
    /\ Init
    /\ args.api_docs = <<"d">>
    /\ args.question_key = "question"

FairSpec == InitFair /\ [][Next]_vars /\ Fairness

\* construction alone, over caller-supplied prompts
InitConstruct ==
    /\ args \in ConstructArgsChoices
    /\ ctor = "pending"
    /\ ctor_error = NoError
    /\ chain = NoChain
    /\ inv = [i \in InvIds |-> Idle]

NextConstruct == Construct \/ FromLlmAndApiDocs

SpecConstruct == InitConstruct /\ [][NextConstruct]_vars

------------------------------------------------------------------------------
(* Properties *)

Frames == {inv[i] : i \in InvIds}

Indices(s, op) == {k \in 1..Len(s.log) : s.log[k].op = op}

Notifications(s, color) ==
    {k \in Indices(s, "on_text") : s.log[k].args.color = color}

RequestVars == {"question", "api_docs"}

AnswerVars == {"question", "api_docs", "api_url", "api_response"}

\* C1: once construction has run, directly or through the factory, it has
\* succeeded only if the request prompt declares exactly the variables
\* question and api_docs, in whatever order; with any other variable set it
\* has failed with the request prompt's ValueError and no chain object
\* exists.
C1_RequestPromptContract ==
    ctor # "pending" =>
        /\ ctor = "ok" =>
               /\ ToSet(args.api_url_prompt) = RequestVars
               /\ chain.constructed
               /\ chain.api_request_chain.prompt.input_variables = args.api_url_prompt
        /\ ToSet(args.api_url_prompt) # RequestVars =>
               /\ ctor = "error"
               /\ ctor_error = "ValueError:api_request_prompt"
               /\ chain = NoChain

C1_Witness ==
    /\ ctor = "error"
    /\ args.api_url_prompt = <<"question", "api_docs", "foo">>
    /\ ToSet(args.api_response_prompt) = AnswerVars

\* C2: once construction has run it has succeeded only if the answer prompt
\* declares exactly question, api_docs, api_url and api_response; with any
\* other variable set it has failed and no chain object exists, and when
\* the request prompt is valid the failure is the answer prompt's ValueError.
C2_AnswerPromptContract ==
    ctor # "pending" =>
        /\ ctor = "ok" =>
               /\ ToSet(args.api_response_prompt) = AnswerVars
               /\ chain.api_answer_chain.prompt.input_variables = args.api_response_prompt
        /\ ToSet(args.api_response_prompt) # AnswerVars =>
               /\ ctor = "error"
               /\ chain = NoChain
               /\ ToSet(args.api_url_prompt) = RequestVars =>
                      ctor_error = "ValueError:api_answer_prompt"

C2_Witness ==
    /\ ctor = "error"
    /\ ToSet(args.api_url_prompt) = RequestVars
    /\ args.api_response_prompt = <<"question", "api_docs", "api_url">>
    /\ ctor_error = "ValueError:api_answer_prompt"

\* C3: on both paths every fetch of an invocation is made with exactly the
\* text the request chain returned for the question found under
\* question_key in the invocation's inputs, whitespace included, and an
\* invocation fetches at most once.
C3_FetchesGeneratedUrl ==
    \A s \in Frames :
        /\ Cardinality(Indices(s, "get")) <= 1
        /\ \A k \in Indices(s, "get") :
               \E j \in Indices(s, "predict_request") :
                   /\ j < k
                   /\ s.log[j].args.question = DictGet(s.inputs, chain.question_key)
                   /\ s.log[k].args.url = LLMPredictRequest(s.log[j].args)

C3_Witness ==
    \E s \in Frames, t \in Frames :
        /\ s.mode = "sync" /\ t.mode = "async"
        /\ \E k \in Indices(s, "get") : s.log[k].args.url # Strip(s.log[k].args.url)
        /\ \E k \in Indices(t, "get") : t.log[k].args.url # Strip(t.log[k].args.url)

\* the text the fetch of frame s returned
Fetched(s) == HttpGet(s.log[CHOOSE k \in Indices(s, "get") : TRUE].args.url)

\* C4: on the blocking path the api_response bound in the answer chain's
\* call is the parser applied to the fetched text when a parser is
\* configured, and the fetched text itself when none is.
C4_SyncBindsNormalized ==
    \A s \in Frames :
        s.mode = "sync" =>
            \A k \in Indices(s, "predict_answer") :
                s.log[k].args.api_response =
                    IF Truthy(chain.api_request_output_parser)
                    THEN ApplyParser(chain.api_request_output_parser, Fetched(s))
                    ELSE Fetched(s)

C4_Witness ==
    \E s \in Frames :
        /\ s.mode = "sync"
        /\ s.pc = "done"
        /\ Truthy(chain.api_request_output_parser)
        /\ \E k \in Indices(s, "predict_answer") :
               /\ s.log[k].args.api_response = ToUpperCase(Fetched(s))
               /\ s.log[k].args.api_response # Fetched(s)

\* C5: on the suspending path, too, the api_response bound in the answer
\* chain's call is the parser applied to the fetched text when a parser is
\* configured; a blocking and a suspending invocation of the same question
\* that both return bind the same api_response and return the same output.
C5_AsyncBindsNormalized ==
    /\ \A s \in Frames :
           s.mode = "async" =>
               \A k \in Indices(s, "predict_answer") :
                   s.log[k].args.api_response =
                       IF Truthy(chain.api_request_output_parser)
                       THEN ApplyParser(chain.api_request_output_parser, Fetched(s))
                       ELSE Fetched(s)
    /\ \A s \in Frames, t \in Frames :
           (s.mode = "sync" /\ t.mode = "async" /\ s.pc = "done" /\ t.pc = "done"
                /\ s.question = t.question) =>
               /\ s.api_response = t.api_response
               /\ s.output = t.output

\* C6: in an invocation whose fetch raised, on either path, the answer chain
\* is not called, the invocation has failed with the fetch error and it has
\* no output.
C6_FetchFailureIsTerminal ==
    \A s \in Frames :
        "get" \in s.raised =>
            /\ Indices(s, "predict_answer") = {}
            /\ s.pc = "failed"
            /\ s.error = "FetchError"
            /\ s.output = {}

C6_Witness ==
    \E s \in Frames, t \in Frames :
        /\ s.mode = "sync" /\ "get" \in s.raised
        /\ t.mode = "async" /\ "get" \in t.raised

\* the order of the collaborator calls of _call and _acall
Canon == <<"predict_request", "on_text", "get", "on_text", "predict_answer">>

Ops(log) == [k \in 1..Len(log) |-> log[k].op]

IsPrefix(a, b) == Len(a) <= Len(b) /\ \A k \in 1..Len(a) : a[k] = b[k]

NotParser(e) == e.op # "parser"

\* the calls of a frame other than the parser's
Steps(s) == SelectSeq(s.log, NotParser)

Min(a, b) == IF a <= b THEN a ELSE b

\* C7: on both paths the calls made so far, the parser's left aside, are in
\* order a prefix of request-chain call, notification (green), fetch,
\* notification (yellow), answer-chain call; a blocking and a suspending invocation of the same
\* question agree, call by call, on the first four of them (operation and
\* arguments), and when both return each has made all five.
C7_SameStepOrder ==
    /\ \A s \in Frames :
           /\ IsPrefix(Ops(Steps(s)), Canon)
           /\ Notifications(s, "green") \subseteq {2}
           /\ Notifications(s, "yellow") \subseteq {4}
    /\ \A s \in Frames, t \in Frames :
           (s.mode = "sync" /\ t.mode = "async" /\ s.question # Unset
                /\ s.question = t.question) =>
               /\ \A k \in 1..Min(4, Min(Len(Steps(s)), Len(Steps(t)))) :
                      Steps(s)[k] = Steps(t)[k]
               /\ (s.pc = "done" /\ t.pc = "done") =>
                      Ops(Steps(s)) = Canon /\ Ops(Steps(t)) = Canon

C7_Witness ==
    \E s \in Frames, t \in Frames :
        /\ s.mode = "sync" /\ t.mode = "async"
        /\ s.pc = "done" /\ t.pc = "done"
        /\ s.question = t.question
        /\ Truthy(chain.api_request_output_parser)

\* C8: on both paths the calls of an invocation start with the request-chain
\* call, the green notification, the fetch and the yellow notification, in
\* this order and each at this one place only, so that the parser and the
\* answer chain are called after both notifications; the green notification
\* carries the text the request chain returned and the yellow one the text
\* the fetch returned, unparsed.
C8_NotificationsInPipelineOrder ==
    \A i \in InvIds :
        \A k \in 1..Len(inv[i].log) :
            LET log == inv[i].log
                e == log[k]
            IN  /\ e.op = "predict_request" <=> k = 1
                /\ (e.op = "on_text" /\ e.args.color = "green") <=> k = 2
                /\ e.op = "get" <=> k = 3
                /\ (e.op = "on_text" /\ e.args.color = "yellow") <=> k = 4
                /\ k = 2 => e.args.text = LLMPredictRequest(log[1].args)
                /\ k = 4 => e.args.text = HttpGet(log[3].args.url)

C8_Witness ==
    \E s \in Frames :
        /\ s.mode = "sync"
        /\ s.pc = "done"
        /\ Indices(s, "parser") # {}
        /\ \E k \in Notifications(s, "yellow") :
               /\ s.log[k].args.text = Fetched(s)
               /\ s.log[k].args.text # s.api_response

\* the exception a raising collaborator call ends the invocation with
ErrorOf(op) ==
    CASE op \in {"predict_request", "predict_answer"} -> "ModelInvocationError"
      [] op = "get" -> "FetchError"
      [] op = "parser" -> "NormalizationError"
      [] OTHER -> "ObserverError"

\* C9: in an invocation in which the request-chain call, the fetch, the
\* parser or the answer-chain call raised, that call is the last one made,
\* the invocation has failed with that call's error and has no output, and
\* no other call raised; no call is ever made twice.  So after a failed
\* request-chain call nothing else is called, and after a failed parser the
\* answer chain is not called.
C9_FailureAborts ==
    \A s \in Frames :
        /\ \A op \in {"predict_request", "get", "parser", "predict_answer"} :
               /\ Cardinality(Indices(s, op)) <= 1
               /\ op \in s.raised =>
                      /\ s.raised = {op}
                      /\ LastCall(s).op = op
                      /\ s.pc = "failed"
                      /\ s.error = ErrorOf(op)
                      /\ s.output = {}
        /\ "predict_request" \in s.raised => Len(s.log) = 1
        /\ "parser" \in s.raised => Indices(s, "predict_answer") = {}

C9_Witness ==
    \E s \in Frames, t \in Frames :
        /\ s.mode = "sync" /\ s.raised = {"parser"}
        /\ t.mode = "sync" /\ t.raised = {"predict_request"}

Count(s, op) == Cardinality(Indices(s, op))

\* C10: an invocation's calls (the parser's left aside: whether it is
\* applied is C4 and C5) are always made in the pipeline's order, with
\* the request chain, the fetcher and the answer chain each called at most
\* once; an invocation that returned has called each of the three exactly
\* once, has bound URL, response and answer, and returns the answer: no
\* invocation returns with a step left out.
C10_StraightLine ==
    \A s \in Frames :
        /\ IsPrefix(Ops(Steps(s)), Canon)
        /\ Count(s, "predict_request") <= 1
        /\ Count(s, "get") <= 1
        /\ Count(s, "predict_answer") <= 1
        /\ s.output # {} => s.pc = "done"
        /\ s.pc = "done" =>
               /\ Ops(Steps(s)) = Canon
               /\ Count(s, "predict_request") = 1
               /\ Count(s, "get") = 1
               /\ Count(s, "predict_answer") = 1
               /\ s.api_url # Unset /\ s.api_response # Unset /\ s.answer # Unset
               /\ s.raised = {}
               /\ s.output = {<<chain.output_key, s.answer>>}

C10_Witness ==
    \E s \in Frames, t \in Frames :
        /\ s.mode = "sync" /\ s.pc = "done"
        /\ t.mode = "async" /\ t.pc = "done"

\* C11: the output of an invocation that returned is a mapping with the one
\* key output_key, and its value is the text the answer chain returned for
\* the bindings it was called with; so when no parser is configured and the
\* answer chain echoes api_response, the value is the fetched text.
C11_OutputIsAnswer ==
    \A i \in InvIds :
        inv[i].pc = "done" =>
            LET s == inv[i]
                b == LastCall(s)
            IN  /\ b.op = "predict_answer"
                /\ s.output = {<<chain.output_key, LLMPredictAnswer(b.args)>>}
                /\ DictKeys(s.output) = {chain.output_key}
                /\ (~Truthy(chain.api_request_output_parser)
                        /\ LLMPredictAnswer(b.args) = b.args.api_response) =>
                       DictGet(s.output, chain.output_key) = HttpGet(s.log[3].args.url)

C11_Witness ==
    \E i \in InvIds :
        /\ inv[i].pc = "done"
        /\ inv[i].mode = "sync"
        /\ ~Truthy(chain.api_request_output_parser)
        /\ chain.api_docs = <<"e">>
        /\ inv[i].output = {<<"result", Fetched(inv[i])>>}

\* C12: two invocations of the same question on the same path that both
\* returned have the same output, in whatever order they ran and whatever
\* else ran; and the chain object is, after any number of invocations, the
\* object the construction produced: an invocation leaves nothing in it.
C12_Idempotent ==
    /\ ctor = "ok" => chain = APIChain(Values(args)).obj
    /\ \A i \in InvIds, j \in InvIds :
           (inv[i].pc = "done" /\ inv[j].pc = "done"
                /\ inv[i].mode = inv[j].mode
                /\ inv[i].question = inv[j].question) =>
               inv[i].output = inv[j].output

C12_Witness ==
    \E i \in InvIds, j \in InvIds :
        /\ i < j
        /\ inv[i].pc = "done" /\ inv[j].pc = "done"
        /\ inv[i].mode = "sync" /\ inv[j].mode = "sync"
        /\ inv[i].question = inv[j].question
        /\ inv[i].inputs # inv[j].inputs

\* the calls a suspending invocation of question q makes on chain self
OwnRequest(self, q) == [question |-> q, api_docs |-> self.api_docs]

OwnUrl(self, q) == LLMPredictRequest(OwnRequest(self, q))

OwnAnswerCall(self, q) ==
    [question |-> q, api_docs |-> self.api_docs, api_url |-> OwnUrl(self, q),
     api_response |-> HttpGet(OwnUrl(self, q))]

\* C13: however suspending invocations interleave, each one calls the
\* request chain with its own question, shows and fetches the URL generated
\* for that question, shows the response fetched from that URL and binds its
\* own question, URL and response in the answer chain's call; what it
\* returns is the answer to that call.
C13_InvocationsIsolated ==
    \A i \in InvIds :
        inv[i].mode = "async" =>
            LET s == inv[i]
                q == s.question
            IN  /\ \A k \in 1..Len(s.log) :
                       /\ k = 1 => s.log[k].args = OwnRequest(chain, q)
                       /\ k = 2 => s.log[k].args.text = OwnUrl(chain, q)
                       /\ k = 3 => s.log[k].args.url = OwnUrl(chain, q)
                       /\ k = 4 => s.log[k].args.text = HttpGet(OwnUrl(chain, q))
                       /\ k = 5 => s.log[k].args = OwnAnswerCall(chain, q)
                /\ s.log # <<>> => q = DictGet(s.inputs, chain.question_key)
                /\ s.pc = "done" =>
                       s.output = {<<chain.output_key,
                                     LLMPredictAnswer(OwnAnswerCall(chain, q))>>}

C13_Witness ==
    \E i \in InvIds, j \in InvIds :
        /\ i < j
        /\ inv[i].pc = "await_answer" /\ inv[j].pc = "await_answer"
        /\ inv[i].question # inv[j].question
        /\ inv[i].api_url # inv[j].api_url
        /\ inv[i].api_response # inv[j].api_response

CancelledIsOver(s) ==
    "cancel" \in s.raised =>
        /\ s.pc = "failed"
        /\ s.error = "CancelledError"
        /\ s.output = {}
        /\ s.answer = Unset
        /\ Len(s.log) \in {1, 3, 5}

\* C14: a suspending invocation cancelled at one of its awaits has failed
\* with CancelledError and has no output; from then on it makes no call and
\* binds nothing more (its frame never changes again), and the chain object
\* is never changed by an invocation, cancelled or not.
C14_CancelAborts ==
    /\ [](\A i \in InvIds : CancelledIsOver(inv[i]))
    /\ [][\A i \in InvIds : "cancel" \in inv[i].raised => inv'[i] = inv[i]]_vars
    /\ [][ctor = "ok" => chain' = chain]_vars

C14_Witness ==
    \E i \in InvIds, j \in InvIds :
        /\ "cancel" \in inv[i].raised
        /\ Len(inv[i].log) = 3
        /\ inv[i].api_url # Unset
        /\ inv[i].api_response = Unset
        /\ inv[j].mode = "async" /\ inv[j].pc = "done"

\* what the fetched text has become when phase 2 is bound: normalized on the
\* blocking path when a parser is configured, as fetched otherwise
BoundResponse(s, r) ==
    IF s.mode = "sync" /\ Truthy(chain.api_request_output_parser)
    THEN ApplyParser(chain.api_request_output_parser, r)
    ELSE r

ObserverAborted(s, n) ==
    /\ s.pc = "failed"
    /\ s.error = "ObserverError"
    /\ s.output = {}
    /\ s.answer = Unset
    /\ Len(s.log) = n
    /\ s.log[n].op = "on_text"
    /\ \A k \in 1..Len(s.log) : s.log[k].op \notin {"parser", "predict_answer"}

\* C15: an observer that raises ends the invocation.  If the notification of
\* the generated URL raises, it is the last call made: no fetch, no phase 2,
\* nothing bound after the URL.  If the notification of the fetched response
\* raises, it is the last call made: no normalizer, no phase 2, and the
\* response is still the raw fetched text.  Either way the invocation has
\* failed and has no output.  When no notification raises, the fetch gets the
\* URL phase 1 produced and phase 2 gets that URL and what the fetch returned
\* for it: nothing comes back from the observer into the data.
C15_ObserverFailureAborts ==
    \A i \in InvIds :
        LET s == inv[i]
        IN  /\ "on_text_url" \in s.raised =>
                   /\ ObserverAborted(s, 2)
                   /\ s.api_response = Unset
            /\ "on_text_response" \in s.raised =>
                   /\ ObserverAborted(s, 4)
                   /\ s.api_response = HttpGet(s.api_url)
            /\ \A k \in 1..Len(s.log) :
                   /\ s.log[k].op = "get" =>
                          s.log[k].args.url = LLMPredictRequest(s.log[1].args)
                   /\ s.log[k].op = "predict_answer" =>
                          /\ s.log[k].args.api_url = LLMPredictRequest(s.log[1].args)
                          /\ s.log[k].args.api_response =
                                 BoundResponse(s, HttpGet(LLMPredictRequest(s.log[1].args)))

C15_Witness ==
    \E i \in InvIds, j \in InvIds :
        /\ inv[i].mode = "sync"
        /\ "on_text_url" \in inv[i].raised
        /\ inv[i].api_url # Unset
        /\ inv[j].mode = "async"
        /\ "on_text_response" \in inv[j].raised
        /\ inv[j].api_response # Unset

\* C16: in every invocation phase 2 is bound with the question and the
\* api_docs phase 1 was bound with and with exactly the URL the fetch was
\* called with, and phase 1 is bound with the api_docs given at construction;
\* whatever invocations have run, succeeded or failed, the chain still holds
\* the api_docs, keys, parser and fetcher it was constructed with.
C16_Phase2SameBindings ==
    /\ ctor = "ok" =>
           /\ chain.api_docs = args.api_docs
           /\ chain.question_key = args.question_key
           /\ chain.output_key = args.output_key
           /\ chain.api_request_output_parser = args.api_request_output_parser
           /\ chain.requests_wrapper = Values(args).requests_wrapper
    /\ \A i \in InvIds :
           LET s == inv[i]
           IN  \A k \in 1..Len(s.log) :
                   /\ s.log[k].op = "predict_request" =>
                          s.log[k].args.api_docs = args.api_docs
                   /\ s.log[k].op = "predict_answer" =>
                          /\ s.log[1].op = "predict_request"
                          /\ s.log[3].op = "get"
                          /\ s.log[k].args.question = s.log[1].args.question
                          /\ s.log[k].args.api_docs = s.log[1].args.api_docs
                          /\ s.log[k].args.api_url = s.log[3].args.url

C16_Witness ==
    \E i \in InvIds, j \in InvIds :
        /\ i < j
        /\ inv[i].pc = "failed"
        /\ inv[i].log # <<>>
        /\ inv[j].pc = "done"
        /\ inv[j].mode = "sync"
        /\ Strip(inv[j].api_url) # inv[j].api_url
        /\ LastCall(inv[j]).args.api_docs = args.api_docs

\* C17: whenever a chain has been constructed, every call of the request
\* chain is bound with exactly the names its prompt declares, which are
\* question and api_docs, and every call of the answer chain with exactly the
\* names its prompt declares, which are question, api_docs, api_url and
\* api_response; this holds whatever question_key and output_key are.
C17_BindingNamesMatchPrompt ==
    /\ ctor = "ok" =>
           /\ ToSet(chain.api_request_chain.prompt.input_variables) = RequestVars
           /\ ToSet(chain.api_answer_chain.prompt.input_variables) = AnswerVars
    /\ \A i \in InvIds :
           LET s == inv[i]
           IN  \A k \in 1..Len(s.log) :
                   /\ s.log[k].op = "predict_request" =>
                          /\ DOMAIN s.log[k].args = RequestVars
                          /\ DOMAIN s.log[k].args =
                                 ToSet(chain.api_request_chain.prompt.input_variables)
                   /\ s.log[k].op = "predict_answer" =>
                          /\ DOMAIN s.log[k].args = AnswerVars
                          /\ DOMAIN s.log[k].args =
                                 ToSet(chain.api_answer_chain.prompt.input_variables)

C17_Witness ==
    \E i \in InvIds, j \in InvIds :
        /\ ctor = "ok"
        /\ chain.question_key = "query"
        /\ chain.output_key = "result"
        /\ inv[i].mode = "sync" /\ inv[i].pc = "done"
        /\ inv[j].mode = "async" /\ inv[j].pc = "done"
        /\ DOMAIN LastCall(inv[i]).args = AnswerVars
        /\ DOMAIN inv[j].log[1].args = RequestVars

Started(s) == s.pc # "idle"

AnswerGenerated(s) ==
    /\ s.pc = "done"
    /\ s.error = NoError
    /\ DictKeys(s.output) = {chain.output_key}

Failed(s) ==
    /\ s.pc = "failed"
    /\ s.error # NoError
    /\ s.output = {}

\* C18: every started invocation eventually is terminal; a terminal
\* invocation either has an output and no error or an error and no output,
\* an invocation that is not terminal has neither, and a terminal invocation
\* never changes again.
C18_Terminates ==
    /\ \A i \in InvIds : Started(inv[i]) ~> Terminal(inv[i])
    /\ [](\A i \in InvIds :
              /\ Terminal(inv[i]) => (AnswerGenerated(inv[i]) \/ Failed(inv[i]))
              /\ ~Terminal(inv[i]) => (inv[i].error = NoError /\ inv[i].output = {}))
    /\ [][\A i \in InvIds : Terminal(inv[i]) => inv'[i] = inv[i]]_vars

C18_Witness ==
    \E i \in InvIds, j \in InvIds :
        /\ inv[i].mode = "async"
        /\ AnswerGenerated(inv[i])
        /\ Len(inv[i].log) = 5
        /\ inv[j].mode = "async"
        /\ Failed(inv[j])
        /\ "get" \in inv[j].raised

HasQuestion(s) == chain.question_key \in DictKeys(s.inputs)

\* C19: on either path, an invocation whose inputs lack the configured
\* question key has failed with KeyError without making any call: its log is
\* empty, nothing has raised, nothing is bound and there is no output.  An
\* invocation whose inputs have the key binds the text found under it, and
\* two invocations on the same path that find the same text under the key
\* have made the same calls with the same arguments, as far as both have
\* got, and return the same output, whatever else their inputs hold.
C19_MissingQuestionKey ==
    /\ \A i \in InvIds :
           LET s == inv[i]
           IN  Started(s) =>
                   IF HasQuestion(s)
                   THEN /\ s.question = DictGet(s.inputs, chain.question_key)
                        /\ s.error # "KeyError"
                        /\ s.log # <<>>
                        /\ s.log[1].args.question = DictGet(s.inputs, chain.question_key)
                   ELSE /\ s.pc = "failed"
                        /\ s.error = "KeyError"
                        /\ s.log = <<>>
                        /\ s.raised = {}
                        /\ s.question = Unset
                        /\ s.api_url = Unset
                        /\ s.output = {}
    /\ \A i \in InvIds, j \in InvIds :
           (/\ Started(inv[i]) /\ Started(inv[j])
            /\ HasQuestion(inv[i]) /\ HasQuestion(inv[j])
            /\ DictGet(inv[i].inputs, chain.question_key)
                   = DictGet(inv[j].inputs, chain.question_key)
            /\ inv[i].mode = inv[j].mode)
               => /\ \A k \in 1..Len(inv[i].log) :
                         k <= Len(inv[j].log) => inv[i].log[k] = inv[j].log[k]
                  /\ (inv[i].pc = "done" /\ inv[j].pc = "done")
                         => inv[i].output = inv[j].output

C19_Witness ==
    \E i \in InvIds, j \in InvIds :
        /\ ctor = "ok"
        /\ inv[i].mode = "async"
        /\ ~HasQuestion(inv[i])
        /\ inv[i].error = "KeyError"
        /\ inv[i].inputs # {}
        /\ inv[j].mode = "sync"
        /\ inv[j].pc = "done"
        /\ DictKeys(inv[j].inputs) # {chain.question_key}

====
